---- MODULE Spec2Model ----
(***************************************************************************)
(* nn-visualiser: the graph builder of src/main.rs (generate_graph,        *)
(* add_op_to_graph, Node::limit_depth) and the main function around it.    *)
(*                                                                         *)
(* A PathBuf is modelled by its sequence of components: PathBuf's Eq and   *)
(* Hash compare components, never the raw bytes.  An operation name is     *)
(* kept raw, as the pieces between its '/' separators, and Components      *)
(* parses it the way std::path does.                                       *)
(***************************************************************************)
EXTENDS Integers, Sequences, FiniteSets, TLC

\* ------------------------------------------------------------ bounds
\* max_depth ranges over None and 0..MaxDepth
MaxDepth == 2
\* relationships (data and control together) in a loaded source
MaxRel == 3
\* raw pieces of an operation name handed to the resolver on its own
MaxSegs == 3

\* ------------------------------------------------------------ Option<usize>
None == [some |-> FALSE, v |-> 0]
Some(x) == [some |-> TRUE, v |-> x]

\* ------------------------------------------------------------ std::path
\* Path::components: an empty piece (a doubled or trailing separator) is no
\* component, and "." is a component only in first position.  Names never
\* start with a separator (the loader rejects them), so there is no root.
RECURSIVE ComponentsFrom(_, _)
ComponentsFrom(segs, p) ==
  IF p > Len(segs) THEN << >>
  ELSE IF segs[p] = "" \/ (segs[p] = "." /\ p > 1)
       THEN ComponentsFrom(segs, p + 1)
       ELSE <<segs[p]>> \o ComponentsFrom(segs, p + 1)

Components(segs) == ComponentsFrom(segs, 1)

\* PathBuf::pop: drops the last component; a path with none is left as it is.
pop(name) == IF Len(name) = 0 THEN name ELSE SubSeq(name, 1, Len(name) - 1)

\* ------------------------------------------------------------ Node
\* Operation::name() / op_type() return Err on bytes that are not UTF-8 and
\* expect() panics on it.
from_operation_panics_name_only(op) == ~op.name.utf8

from_operation_panics(op) == ~op.name.utf8 \/ ~op.ty.utf8

from_operation(op) == [name |-> Components(op.name.segs), ty |-> op.ty.s]

\* for _ in max_depth..depth { self.name.pop(); }
RECURSIVE pop_times(_, _)
pop_times(name, n) == IF n <= 0 THEN name ELSE pop_times(pop(name), n - 1)

limit_depth_off_by_one(node, max_depth) ==
  LET depth == Len(node.name) IN
  [name |-> pop_times(node.name, depth - max_depth),
   ty   |-> IF max_depth <= depth THEN "Block" ELSE node.ty]

limit_depth(node, max_depth) ==
  LET depth == Len(node.name) IN
  [name |-> pop_times(node.name, depth - max_depth),
   ty   |-> IF max_depth < depth THEN "Block" ELSE node.ty]

from_operation_with_depth(op, max_depth) ==
  limit_depth(from_operation(op), max_depth)

\* max_depth.as_ref().map_or_else(from_operation, from_operation_with_depth)
Resolve(op, max_depth) ==
  IF max_depth.some THEN from_operation_with_depth(op, max_depth.v)
  ELSE from_operation(op)

\* ------------------------------------------------------------ petgraph
EmptyGraph == [nodes |-> << >>, edges |-> << >>]

\* Graph::add_node: appends the weight, its index is the new length
add_node(g, w) == [g EXCEPT !.nodes = Append(@, w)]

find_edge_source_only(g, a, b) ==
  \E e \in 1..Len(g.edges) : g.edges[e].src = a

\* Graph::find_edge(a, b): an edge from a to b, if any
find_edge(g, a, b) ==
  \E e \in 1..Len(g.edges) : g.edges[e].src = a /\ g.edges[e].dst = b

\* Graph::add_edge(a, b, w): appends, whatever edges exist already
add_edge(g, a, b, w) ==
  [g EXCEPT !.edges = Append(@, [src |-> a, dst |-> b, w |-> w])]

\* lines 71-73 and 78-80: nodes.entry(node).or_insert_with(|| graph.add_node(node))
entry_or_insert_always(st, node) ==
  LET g == add_node(st.graph, node) IN
  [graph |-> g,
   nodes |-> [n \in DOMAIN st.nodes \cup {node} |->
                IF n = node THEN Len(g.nodes) ELSE st.nodes[n]],
   idx   |-> Len(g.nodes)]

entry_or_insert(st, node) ==
  IF node \in DOMAIN st.nodes
  THEN [graph |-> st.graph, nodes |-> st.nodes, idx |-> st.nodes[node]]
  ELSE LET g == add_node(st.graph, node) IN
       [graph |-> g,
        nodes |-> [n \in DOMAIN st.nodes \cup {node} |->
                     IF n = node THEN Len(g.nodes) ELSE st.nodes[n]],
        idx   |-> Len(g.nodes)]

\* line 81: in_node != out_node && graph.find_edge(out_idx, in_idx).is_none()
edge_wanted_no_dedup(g, in_node, out_node, in_idx, out_idx) ==
  in_node # out_node

edge_wanted_no_self_check(g, in_node, out_node, in_idx, out_idx) ==
  ~find_edge(g, out_idx, in_idx)

edge_wanted_either_direction(g, in_node, out_node, in_idx, out_idx) ==
  in_node # out_node /\ ~find_edge(g, out_idx, in_idx) /\ ~find_edge(g, in_idx, out_idx)

edge_wanted(g, in_node, out_node, in_idx, out_idx) ==
  in_node # out_node /\ ~find_edge(g, out_idx, in_idx)

\* lines 82-86: Edge { dim: vec![], input_index: input.1, output_index: output.1 }
new_edge_swapped(input, output) ==
  [dim |-> << >>, input_index |-> output.idx, output_index |-> input.idx]

new_edge_input_only(input, output) ==
  [dim |-> << >>, input_index |-> input.idx, output_index |-> None]

new_edge(input, output) ==
  [dim |-> << >>, input_index |-> input.idx, output_index |-> output.idx]

\* lines 81-88: the guarded graph.add_edge(out_idx, in_idx, edge)
try_add_edge_update(g, in_node, out_node, in_idx, out_idx, edge) ==
  IF in_node = out_node THEN g
  ELSE IF find_edge(g, out_idx, in_idx)
       THEN [g EXCEPT !.edges =
               [e \in DOMAIN @ |->
                  IF @[e].src = out_idx /\ @[e].dst = in_idx
                  THEN [@[e] EXCEPT !.w = edge] ELSE @[e]]]
       ELSE add_edge(g, out_idx, in_idx, edge)

try_add_edge(g, in_node, out_node, in_idx, out_idx, edge) ==
  IF edge_wanted(g, in_node, out_node, in_idx, out_idx)
  THEN add_edge(g, out_idx, in_idx, edge)
  ELSE g

add_op_to_graph_self_pair_returns(input, output, graph, nodes, max_depth) ==
  IF from_operation_panics(input.op) \/ from_operation_panics(output.op)
  THEN [panicked |-> TRUE, graph |-> graph, nodes |-> nodes]
  ELSE
    LET in_node  == Resolve(input.op, max_depth)
        out_node == Resolve(output.op, max_depth)
    IN
    IF in_node = out_node
    THEN [panicked |-> FALSE, graph |-> graph, nodes |-> nodes]
    ELSE
      LET a == entry_or_insert([graph |-> graph, nodes |-> nodes], in_node)
          b == entry_or_insert([graph |-> a.graph, nodes |-> a.nodes], out_node)
      IN
      [panicked |-> FALSE,
       graph    |-> try_add_edge(b.graph, in_node, out_node, a.idx, b.idx,
                                 new_edge(input, output)),
       nodes    |-> b.nodes]

add_op_to_graph_nodes_with_edge(input, output, graph, nodes, max_depth) ==
  IF from_operation_panics(input.op) \/ from_operation_panics(output.op)
  THEN [panicked |-> TRUE, graph |-> graph, nodes |-> nodes]
  ELSE
    LET in_node  == Resolve(input.op, max_depth)
        out_node == Resolve(output.op, max_depth)
        known    == in_node \in DOMAIN nodes /\ out_node \in DOMAIN nodes
    IN
    IF in_node = out_node
       \/ (known /\ find_edge(graph, nodes[out_node], nodes[in_node]))
    THEN [panicked |-> FALSE, graph |-> graph, nodes |-> nodes]
    ELSE
      LET a == entry_or_insert([graph |-> graph, nodes |-> nodes], in_node)
          b == entry_or_insert([graph |-> a.graph, nodes |-> a.nodes], out_node)
      IN
      [panicked |-> FALSE,
       graph    |-> add_edge(b.graph, b.idx, a.idx, new_edge(input, output)),
       nodes    |-> b.nodes]

\* lines 60-89.  input and output are (operation, Option<usize>) pairs.  The
\* result says whether a resolution panicked and what the graph and the
\* identity map hold at that point: the input node is inserted before the
\* output operation is resolved.
add_op_to_graph(input, output, graph, nodes, max_depth) ==
  IF from_operation_panics(input.op)
  THEN [panicked |-> TRUE, graph |-> graph, nodes |-> nodes]
  ELSE
    LET in_node == Resolve(input.op, max_depth)
        a       == entry_or_insert([graph |-> graph, nodes |-> nodes], in_node)
    IN
    IF from_operation_panics(output.op)
    THEN [panicked |-> TRUE, graph |-> a.graph, nodes |-> a.nodes]
    ELSE
      LET out_node == Resolve(output.op, max_depth)
          b        == entry_or_insert([graph |-> a.graph, nodes |-> a.nodes], out_node)
      IN
      [panicked |-> FALSE,
       graph    |-> try_add_edge(b.graph, in_node, out_node, a.idx, b.idx,
                                 new_edge(input, output)),
       nodes    |-> b.nodes]

\* ------------------------------------------------------------ the loaded source
\* What TfGraph::import_graph_def leaves behind: operations with a name, a
\* type, data inputs, per-output consumer lists and control lists.  The
\* loader keeps the lists consistent: b is a consumer of a's output o exactly
\* when some input of b is (a, o), and likewise for control lists.
OpIds == 1..3

Name(segs) == [utf8 |-> TRUE, segs |-> segs]
Text(t) == [utf8 |-> TRUE, s |-> t]
BadName == [utf8 |-> FALSE, segs |-> << >>]
BadText == [utf8 |-> FALSE, s |-> ""]

OpDecl(n, t, outs) == [name |-> n, ty |-> t, num_outputs |-> outs]

SchemeFlat ==
  << OpDecl(Name(<<"a">>), Text("Const"), 1),
     OpDecl(Name(<<"b">>), Text("Add"), 1),
     OpDecl(Name(<<"c">>), Text("NoOp"), 0) >>

SchemeNested ==
  << OpDecl(Name(<<"g", "x">>), Text("Split"), 2),
     OpDecl(Name(<<"h", "z">>), Text("Add"), 1),
     OpDecl(Name(<<"g", "y">>), Text("Add"), 1) >>

\* "g/x", "g//x" and "g/./x/y/"
SchemeOdd ==
  << OpDecl(Name(<<"g", "x">>), Text("Add"), 1),
     OpDecl(Name(<<"g", "", "x">>), Text("Add"), 1),
     OpDecl(Name(<<"g", ".", "x", "y", "">>), Text("Add"), 1) >>

SchemeBadName ==
  << OpDecl(Name(<<"a">>), Text("Const"), 1),
     OpDecl(BadName, Text("Add"), 1),
     OpDecl(Name(<<"c">>), Text("Add"), 1) >>

SchemeBadType ==
  << OpDecl(Name(<<"a">>), Text("Const"), 1),
     OpDecl(Name(<<"b">>), Text("Add"), 1),
     OpDecl(Name(<<"c">>), BadText, 0) >>

SchemeFanOut ==
  << OpDecl(Name(<<"h", "z">>), Text("Split"), 2),
     OpDecl(Name(<<"g", "x">>), Text("Add"), 1),
     OpDecl(Name(<<"g", "y">>), Text("Add"), 1) >>

SchemeNoOp ==
  << OpDecl(Name(<<"a">>), Text("NoOp"), 0),
     OpDecl(Name(<<"b">>), Text("NoOp"), 0),
     OpDecl(Name(<<"c">>), Text("NoOp"), 0) >>

SchemeGroup ==
  << OpDecl(Name(<<"grp", "x">>), Text("Const"), 1),
     OpDecl(Name(<<"grp", "y">>), Text("Add"), 1),
     OpDecl(Name(<<"out">>), Text("NoOp"), 0) >>

Schemes ==
  {SchemeFlat, SchemeNested, SchemeFanOut, SchemeOdd, SchemeNoOp, SchemeBadName,
   SchemeBadType, SchemeGroup}

\* A relationship: c reads output o of p (data), or c must run after p (ctrl).
DataRels ==
  {[kind |-> "data", p |-> p, o |-> o, c |-> c] :
     p \in OpIds, o \in 0..1, c \in OpIds}
DataCands(sch) == {r \in DataRels : r.p < r.c /\ r.o < sch[r.p].num_outputs}
CtrlCands ==
  {r \in {[kind |-> "ctrl", p |-> p, o |-> 0, c |-> c] : p \in OpIds, c \in OpIds} :
     r.p < r.c}

RelSets(sch) ==
  {R \in SUBSET (DataCands(sch) \cup CtrlCands) : Cardinality(R) <= MaxRel}

RelKey(r) == r.c * 100 + r.p * 10 + r.o

RECURSIVE SortRels(_)
SortRels(S) ==
  IF S = {} THEN << >>
  ELSE LET m == CHOOSE x \in S : \A y \in S : RelKey(x) <= RelKey(y)
       IN <<m>> \o SortRels(S \ {m})

\* the input slot a data relationship occupies on its consumer
SlotOf(R, r) ==
  Cardinality({q \in R : q.kind = "data" /\ q.c = r.c /\ RelKey(q) < RelKey(r)})

InputsOf(R, c) ==
  LET s == SortRels({r \in R : r.kind = "data" /\ r.c = c})
  IN [n \in 1..Len(s) |-> [op |-> s[n].p, idx |-> s[n].o]]

ConsumersOf(R, p, o) ==
  LET s == SortRels({r \in R : r.kind = "data" /\ r.p = p /\ r.o = o})
  IN [n \in 1..Len(s) |-> [op |-> s[n].c, idx |-> SlotOf(R, s[n])]]

ControlInputsOf(R, c) ==
  LET s == SortRels({r \in R : r.kind = "ctrl" /\ r.c = c})
  IN [n \in 1..Len(s) |-> s[n].p]

ControlOutputsOf(R, p) ==
  LET s == SortRels({r \in R : r.kind = "ctrl" /\ r.p = p})
  IN [n \in 1..Len(s) |-> s[n].c]

Source(sch, R) ==
  [id \in OpIds |->
     [name |-> sch[id].name,
      ty |-> sch[id].ty,
      inputs |-> InputsOf(R, id),
      consumers |-> [o \in 1..sch[id].num_outputs |-> ConsumersOf(R, id, o - 1)],
      control_inputs |-> ControlInputsOf(R, id),
      control_outputs |-> ControlOutputsOf(R, id)]]

Sources == UNION {{Source(sch, R) : R \in RelSets(sch)} : sch \in Schemes}

\* TfGraph::operation_iter yields every operation once, in the loader's order
Orders == {s \in [OpIds -> OpIds] : \A x, y \in OpIds : x # y => s[x] # s[y]}

\* ------------------------------------------------------------ state
VARIABLES
  pc,          \* where main is: read, import, build, render, done, failed, panicked
  max_depth,   \* config.max_depth
  src,         \* the imported TfGraph
  order,       \* the order operation_iter yields the operations in
  k,           \* generate_graph: position of the current operation in order
  phase,       \* generate_graph: which of the four loops runs
  i,           \* generate_graph: slot index of the running loop
  j,           \* generate_graph: position in the consumer list of slot i
  graph,       \* generate_graph: graph
  nodes,       \* generate_graph: nodes, the identity map
  attempts,    \* history: the calls of add_op_to_graph that returned
  written,     \* what reached the output file and standard output
  r_op,        \* an operation handed to the resolver on its own
  r_node       \* what the resolver made of it

vars == <<pc, max_depth, src, order, k, phase, i, j, graph, nodes, attempts,
          written, r_op, r_node>>

NoSource == << >>
NothingWritten == [file |-> << >>, stdout |-> << >>]
NoOperation == OpDecl(Name(<< >>), Text(""), 0)
NoNode == [name |-> << >>, ty |-> ""]

Depths == {None} \cup {Some(d) : d \in 0..MaxDepth}

\* line 139: Config::from_args
Init ==
  /\ pc = "read"
  /\ max_depth \in Depths
  /\ src = NoSource
  /\ order = << >>
  /\ k = 0
  /\ phase = "next"
  /\ i = 0
  /\ j = 0
  /\ graph = EmptyGraph
  /\ nodes = << >>
  /\ attempts = << >>
  /\ written = NothingWritten
  /\ r_op = NoOperation
  /\ r_node = NoNode

\* line 141: fs::read(&config.input)?
ReadInput ==
  /\ pc = "read"
  /\ \/ pc' = "import"
     \/ pc' = "failed"
  /\ UNCHANGED <<max_depth, src, order, k, phase, i, j, graph, nodes, attempts,
                 written, r_op, r_node>>

\* lines 143-144: graph.import_graph_def(&input, ..)?
ImportGraphDef ==
  /\ pc = "import"
  /\ \/ /\ src' \in Sources
        /\ order' \in Orders
        /\ pc' = "build"
     \/ /\ pc' = "failed"
        /\ UNCHANGED <<src, order>>
  /\ UNCHANGED <<max_depth, k, phase, i, j, graph, nodes, attempts, written,
                 r_op, r_node>>

\* the operation the outer loop of generate_graph is at
op == src[order[k]]

\* ------------------------------------------------------------ the four call sites
Arg(id, idx) == [id |-> id, op |-> src[id], idx |-> idx]

\* lines 96-103
data_input_call_swapped(n) ==
  [kind |-> "data_input",
   input  |-> Arg(op.inputs[n + 1].op, Some(op.inputs[n + 1].idx)),
   output |-> Arg(order[k], Some(n))]

data_input_call(n) ==
  [kind |-> "data_input",
   input  |-> Arg(order[k], Some(n)),
   output |-> Arg(op.inputs[n + 1].op, Some(op.inputs[n + 1].idx))]

\* lines 106-113
output_consumer_call_swapped(n, m) ==
  [kind |-> "output_consumer",
   input  |-> Arg(order[k], Some(n)),
   output |-> Arg(op.consumers[n + 1][m + 1].op, Some(op.consumers[n + 1][m + 1].idx))]

output_consumer_call(n, m) ==
  [kind |-> "output_consumer",
   input  |-> Arg(op.consumers[n + 1][m + 1].op, Some(op.consumers[n + 1][m + 1].idx)),
   output |-> Arg(order[k], Some(n))]

\* lines 116-123
control_output_call_swapped(m) ==
  [kind |-> "control_output",
   input  |-> Arg(order[k], None),
   output |-> Arg(op.control_outputs[m + 1], None)]

control_output_call(m) ==
  [kind |-> "control_output",
   input  |-> Arg(op.control_outputs[m + 1], None),
   output |-> Arg(order[k], None)]

\* lines 125-132
control_input_call_swapped(m) ==
  [kind |-> "control_input",
   input  |-> Arg(op.control_inputs[m + 1], None),
   output |-> Arg(order[k], None)]

control_input_call(m) ==
  [kind |-> "control_input",
   input  |-> Arg(order[k], None),
   output |-> Arg(op.control_inputs[m + 1], None)]

\* One call of add_op_to_graph from generate_graph.  A panic unwinds main.
Call(c) ==
  LET r == add_op_to_graph(c.input, c.output, graph, nodes, max_depth) IN
  /\ graph' = r.graph
  /\ nodes' = r.nodes
  /\ IF r.panicked
     THEN /\ pc' = "panicked"
          /\ UNCHANGED attempts
     ELSE /\ pc' = pc
          /\ attempts' = Append(attempts,
               [kind |-> c.kind, in_id |-> c.input.id, out_id |-> c.output.id,
                in_node  |-> Resolve(c.input.op, max_depth),
                out_node |-> Resolve(c.output.op, max_depth),
                input_index |-> c.input.idx, output_index |-> c.output.idx])

\* ------------------------------------------------------------ generate_graph
\* line 94: for op in nn_graph.operation_iter(); line 135: graph
NextOp ==
  /\ pc = "build" /\ phase = "next"
  /\ \/ /\ k < Len(order)
        /\ k' = k + 1
        /\ phase' = "inputs"
        /\ pc' = pc
     \/ /\ k = Len(order)
        /\ pc' = "render"
        /\ UNCHANGED <<k, phase>>
  /\ UNCHANGED <<max_depth, src, order, i, j, graph, nodes, attempts, written,
                 r_op, r_node>>

\* lines 95-104
DataInput ==
  /\ pc = "build" /\ phase = "inputs"
  /\ i < Len(op.inputs)
  /\ Call(data_input_call(i))
  /\ i' = i + 1
  /\ UNCHANGED <<max_depth, src, order, k, phase, j, written, r_op, r_node>>

DataInputsDone ==
  /\ pc = "build" /\ phase = "inputs"
  /\ i = Len(op.inputs)
  /\ phase' = "consumers"
  /\ i' = 0
  /\ UNCHANGED <<pc, max_depth, src, order, k, j, graph, nodes, attempts,
                 written, r_op, r_node>>

\* lines 105-115
OutputConsumer ==
  /\ pc = "build" /\ phase = "consumers"
  /\ i < Len(op.consumers)
  /\ j < Len(op.consumers[i + 1])
  /\ Call(output_consumer_call(i, j))
  /\ j' = j + 1
  /\ UNCHANGED <<max_depth, src, order, k, phase, i, written, r_op, r_node>>

OutputSlotDone ==
  /\ pc = "build" /\ phase = "consumers"
  /\ i < Len(op.consumers)
  /\ j = Len(op.consumers[i + 1])
  /\ i' = i + 1
  /\ j' = 0
  /\ UNCHANGED <<pc, max_depth, src, order, k, phase, graph, nodes, attempts,
                 written, r_op, r_node>>

OutputConsumersDone ==
  /\ pc = "build" /\ phase = "consumers"
  /\ i = Len(op.consumers)
  /\ phase' = "control_outputs"
  /\ i' = 0
  /\ UNCHANGED <<pc, max_depth, src, order, k, j, graph, nodes, attempts,
                 written, r_op, r_node>>

\* lines 116-124
ControlOutput ==
  /\ pc = "build" /\ phase = "control_outputs"
  /\ j < Len(op.control_outputs)
  /\ Call(control_output_call(j))
  /\ j' = j + 1
  /\ UNCHANGED <<max_depth, src, order, k, phase, i, written, r_op, r_node>>

ControlOutputsDone ==
  /\ pc = "build" /\ phase = "control_outputs"
  /\ j = Len(op.control_outputs)
  /\ phase' = "control_inputs"
  /\ j' = 0
  /\ UNCHANGED <<pc, max_depth, src, order, k, i, graph, nodes, attempts,
                 written, r_op, r_node>>

\* lines 125-133
ControlInput ==
  /\ pc = "build" /\ phase = "control_inputs"
  /\ j < Len(op.control_inputs)
  /\ Call(control_input_call(j))
  /\ j' = j + 1
  /\ UNCHANGED <<max_depth, src, order, k, phase, i, written, r_op, r_node>>

ControlInputsDone ==
  /\ pc = "build" /\ phase = "control_inputs"
  /\ j = Len(op.control_inputs)
  /\ phase' = "next"
  /\ j' = 0
  /\ UNCHANGED <<pc, max_depth, src, order, k, i, graph, nodes, attempts,
                 written, r_op, r_node>>

Dot_nodes_reversed(g) ==
  [n \in 1..Len(g.nodes) |->
     [line |-> "node", index |-> Len(g.nodes) - n,
      label |-> g.nodes[Len(g.nodes) + 1 - n]]]
  \o
  [e \in 1..Len(g.edges) |->
     [line |-> "edge", from |-> g.edges[e].src - 1, to |-> g.edges[e].dst - 1,
      label |-> g.edges[e].w]]

\* ------------------------------------------------------------ rendering
\* line 146 and the {:?} of lines 150 and 152: petgraph's Dot lists the nodes
\* by index with their weight as label, then the edges by index with their
\* endpoints and their weight as label.  Indices print from 0.
Dot(g) ==
  [n \in 1..Len(g.nodes) |->
     [line |-> "node", index |-> n - 1, label |-> g.nodes[n]]]
  \o
  [e \in 1..Len(g.edges) |->
     [line |-> "edge", from |-> g.edges[e].src - 1, to |-> g.edges[e].dst - 1,
      label |-> g.edges[e].w]]

\* lines 148-155.  config.output is read here for the first time, so it is
\* drawn here: a file (create may fail, write_all may stop part way) or
\* standard output.
Render ==
  /\ pc = "render"
  /\ \/ /\ pc' = "failed"
        /\ UNCHANGED written
     \/ /\ written' = [written EXCEPT !.file = Dot(graph)]
        /\ pc' = "done"
     \/ /\ \E n \in 0..(Len(Dot(graph)) - 1) :
             written' = [written EXCEPT !.file = SubSeq(Dot(graph), 1, n)]
        /\ pc' = "failed"
     \/ /\ written' = [written EXCEPT !.stdout = Dot(graph)]
        /\ pc' = "done"
  /\ UNCHANGED <<max_depth, src, order, k, phase, i, j, graph, nodes, attempts,
                 r_op, r_node>>

Next ==
  \/ ReadInput
  \/ ImportGraphDef
  \/ NextOp
  \/ DataInput
  \/ DataInputsDone
  \/ OutputConsumer
  \/ OutputSlotDone
  \/ OutputConsumersDone
  \/ ControlOutput
  \/ ControlOutputsDone
  \/ ControlInput
  \/ ControlInputsDone
  \/ Render

Spec == Init /\ [][Next]_vars

\* ------------------------------------------------------------ the resolver alone
Pieces == {"a", "b", "", ".", ".."}
RawNames ==
  {s \in UNION {[1..n -> Pieces] : n \in 1..MaxSegs} : s[1] # ""}
RawOps ==
  {OpDecl(Name(s), Text(t), 1) : s \in RawNames, t \in {"Add", "Block"}}
  \cup {OpDecl(BadName, Text("Add"), 1), OpDecl(Name(<<"a", "b">>), BadText, 1)}

InitResolve ==
  /\ pc = "resolve"
  /\ max_depth \in Depths
  /\ r_op \in RawOps
  /\ src = NoSource
  /\ order = << >>
  /\ k = 0
  /\ phase = "next"
  /\ i = 0
  /\ j = 0
  /\ graph = EmptyGraph
  /\ nodes = << >>
  /\ attempts = << >>
  /\ written = NothingWritten
  /\ r_node = NoNode

\* lines 67-70: one resolution, as add_op_to_graph does it
ResolveOp ==
  /\ pc = "resolve"
  /\ \/ /\ from_operation_panics(r_op)
        /\ pc' = "panicked"
        /\ UNCHANGED r_node
     \/ /\ ~from_operation_panics(r_op)
        /\ r_node' = Resolve(r_op, max_depth)
        /\ pc' = "resolved"
  /\ UNCHANGED <<max_depth, src, order, k, phase, i, j, graph, nodes, attempts,
                 written, r_op>>

SpecResolve == InitResolve /\ [][ResolveOp]_vars

\* ------------------------------------------------------------ reading the state
NodeSet == {graph.nodes[n] : n \in DOMAIN graph.nodes}
EdgeFrom(e) == graph.nodes[graph.edges[e].src]
EdgeTo(e) == graph.nodes[graph.edges[e].dst]
EdgePairs == {<<EdgeFrom(e), EdgeTo(e)>> : e \in DOMAIN graph.edges}
EdgesBetween(s, t) == {e \in DOMAIN graph.edges : EdgeFrom(e) = s /\ EdgeTo(e) = t}
Built == pc \in {"render", "done"}
Collapsing == max_depth.some
NodeOfOp(id) == Resolve(src[id], max_depth)
Tags(a, b) == [dim |-> << >>, input_index |-> a, output_index |-> b]
AttemptNodes ==
  {attempts[n].in_node : n \in DOMAIN attempts}
  \cup {attempts[n].out_node : n \in DOMAIN attempts}
\* how often an identity was referenced by the calls made so far
References(node) ==
  Cardinality({n \in DOMAIN attempts : attempts[n].in_node = node})
  + Cardinality({n \in DOMAIN attempts : attempts[n].out_node = node})

\* ------------------------------------------------------------ C1
\* C1: node uniqueness.  In every state no two graph indices hold an equal
\* Node, the identity map sends each Node to the one index holding it, and
\* while no resolution has panicked the graph holds exactly one node per
\* distinct identity the calls so far resolved.
C1_NodeUniqueness ==
  /\ \A m, n \in DOMAIN graph.nodes : m # n => graph.nodes[m] # graph.nodes[n]
  /\ DOMAIN nodes = NodeSet
  /\ \A x \in DOMAIN nodes :
       nodes[x] \in DOMAIN graph.nodes /\ graph.nodes[nodes[x]] = x
  /\ pc # "panicked" =>
       /\ NodeSet = AttemptNodes
       /\ Len(graph.nodes) = Cardinality(AttemptNodes)

\* a finished graph of several nodes, one of them referenced three times or more
C1_Witness ==
  /\ pc = "done"
  /\ Len(graph.nodes) >= 2
  /\ \E x \in NodeSet : References(x) >= 3

\* ------------------------------------------------------------ C2
\* C2: edge uniqueness.  In every state, for every ordered pair of Nodes the
\* graph holds at most one edge from the first to the second.
C2_EdgeUniqueness ==
  \A e, f \in DOMAIN graph.edges :
    e # f => <<EdgeFrom(e), EdgeTo(e)>> # <<EdgeFrom(f), EdgeTo(f)>>

\* collapsing sent the pairs of two different operation pairs to one node pair,
\* which holds its one edge
C2_Witness ==
  /\ pc = "done"
  /\ Collapsing
  /\ \E m, n \in DOMAIN attempts :
       /\ <<attempts[m].in_id, attempts[m].out_id>> # <<attempts[n].in_id, attempts[n].out_id>>
       /\ attempts[m].in_node = attempts[n].in_node
       /\ attempts[m].out_node = attempts[n].out_node
       /\ Cardinality(EdgesBetween(attempts[m].out_node, attempts[m].in_node)) = 1

\* ------------------------------------------------------------ C3
\* C3: no self-loops.  In every state no edge has equal source and target Node.
C3_NoSelfLoops ==
  \A e \in DOMAIN graph.edges :
    graph.edges[e].src # graph.edges[e].dst /\ EdgeFrom(e) # EdgeTo(e)

\* collapsing resolved both ends of a data and of a control relationship
\* between different operations to one Block node
C3_Witness ==
  /\ pc = "done"
  /\ Collapsing
  /\ \E m, n \in DOMAIN attempts :
       /\ attempts[m].kind = "data_input" /\ attempts[n].kind = "control_input"
       /\ attempts[m].in_id # attempts[m].out_id
       /\ attempts[n].in_id # attempts[n].out_id
       /\ attempts[m].in_node = attempts[m].out_node
       /\ attempts[n].in_node = attempts[n].out_node
       /\ attempts[m].in_node.ty = "Block"

\* ------------------------------------------------------------ C4
\* C4: collapsing correctness.  For a name of k segments (counted as the
\* resolver counts them, that is as path components), a type and a limit D,
\* the resolved Node has the first D segments and type "Block" when k > D and
\* the full name and the declared type when k <= D; without a limit it always
\* has the full name and the declared type.
C4_Collapsing ==
  pc = "resolved" =>
    LET full == Components(r_op.name.segs)
        D    == max_depth.v
    IN IF max_depth.some /\ Len(full) > D
       THEN r_node.name = SubSeq(full, 1, D) /\ r_node.ty = "Block"
       ELSE r_node.name = full /\ r_node.ty = r_op.ty.s

\* a name of three segments cut to a proper, non-empty prefix
C4_Witness ==
  /\ pc = "resolved"
  /\ max_depth.some /\ max_depth.v = 2
  /\ Len(Components(r_op.name.segs)) = 3
  /\ Len(r_node.name) = 2
  /\ r_node.ty = "Block" /\ r_op.ty.s = "Add"

\* ------------------------------------------------------------ scenarios
Data(p, o, c) == [kind |-> "data", p |-> p, o |-> o, c |-> c]
Ctrl(p, c) == [kind |-> "ctrl", p |-> p, o |-> 0, c |-> c]
Nd(name, ty) == [name |-> name, ty |-> ty]
\* the one edge from s to t, when there is exactly one
TheEdge(s, t) == graph.edges[CHOOSE e \in EdgesBetween(s, t) : TRUE].w

\* a/Const feeds input 0 of b/Add from its output 0; no collapsing
ScenarioA == src = Source(SchemeFlat, {Data(1, 0, 2)}) /\ ~Collapsing
\* b/NoOp has control input a/NoOp; no collapsing
ScenarioC == src = Source(SchemeNoOp, {Ctrl(1, 2)}) /\ ~Collapsing
\* output 0 of a is consumed by input 0 of b and input 0 of c; no collapsing
ScenarioD == src = Source(SchemeFlat, {Data(1, 0, 2), Data(1, 0, 3)}) /\ ~Collapsing

\* ------------------------------------------------------------ C5
\* what one returning call must do to the edges: add the edge s -> t with
\* weight w at the end when s # t and no edge s -> t exists, nothing otherwise
AddsEdgeIfNew(s, t, w) ==
  /\ s \in DOMAIN nodes' /\ t \in DOMAIN nodes'
  /\ IF s # t /\ EdgesBetween(s, t) = {}
     THEN graph'.edges =
            Append(graph.edges, [src |-> nodes'[s], dst |-> nodes'[t], w |-> w])
     ELSE graph'.edges = graph.edges

C5_DataInputStep ==
  (pc = "build" /\ phase = "inputs" /\ pc' = "build" /\ i' = i + 1) =>
    LET c == order[k]
        p == src[c].inputs[i + 1].op
        o == src[c].inputs[i + 1].idx
    IN AddsEdgeIfNew(NodeOfOp(p), NodeOfOp(c), Tags(Some(i), Some(o)))

C5_ScenarioA ==
  (ScenarioA /\ Built) =>
    /\ NodeSet = {Nd(<<"a">>, "Const"), Nd(<<"b">>, "Add")}
    /\ Len(graph.edges) = 1
    /\ EdgePairs = {<<Nd(<<"a">>, "Const"), Nd(<<"b">>, "Add")>>}
    /\ graph.edges[1].w = Tags(Some(0), Some(0))

\* C5: processing input slot i of c, fed by output o of p, adds the edge
\* resolve(p) -> resolve(c) tagged (input_index i, output_index o) when the
\* two Nodes differ and no such edge exists yet; and a/Const feeding b/Add
\* gives 2 nodes and the 1 edge a -> b tagged (0, 0) in every iteration order.
C5_DataInputEdges == [][C5_DataInputStep]_vars /\ [](C5_ScenarioA)

\* scenario A finished with b iterated before a
C5_Witness ==
  /\ ScenarioA /\ pc = "done"
  /\ order[1] = 2
  /\ Len(graph.edges) = 1
  /\ attempts[1].kind = "data_input"

\* ------------------------------------------------------------ C6
C6_ControlInputStep ==
  (pc = "build" /\ phase = "control_inputs" /\ pc' = "build" /\ j' = j + 1) =>
    AddsEdgeIfNew(NodeOfOp(op.control_inputs[j + 1]), NodeOfOp(order[k]),
                  Tags(None, None))

C6_ControlOutputStep ==
  (pc = "build" /\ phase = "control_outputs" /\ pc' = "build" /\ j' = j + 1) =>
    AddsEdgeIfNew(NodeOfOp(order[k]), NodeOfOp(op.control_outputs[j + 1]),
                  Tags(None, None))

C6_ScenarioC ==
  (ScenarioC /\ Built) =>
    /\ NodeSet = {Nd(<<"a">>, "NoOp"), Nd(<<"b">>, "NoOp")}
    /\ Len(graph.edges) = 1
    /\ EdgePairs = {<<Nd(<<"a">>, "NoOp"), Nd(<<"b">>, "NoOp")>>}
    /\ graph.edges[1].w = Tags(None, None)

\* C6 as amended: control edges point from the operation that runs first to
\* the one that must run after it, with both indices unset.  A control input
\* a of b adds resolve(a) -> resolve(b), a control output d of x adds
\* resolve(x) -> resolve(d), each when the Nodes differ and no such edge
\* exists; b/NoOp with control input a/NoOp gives 2 nodes and the 1 edge a -> b.
C6_ControlEdges ==
  [][C6_ControlInputStep /\ C6_ControlOutputStep]_vars /\ [](C6_ScenarioC)

\* scenario C finished with b iterated first, so that the edge comes from
\* b's control-input pass
C6_Witness ==
  /\ ScenarioC /\ pc = "done"
  /\ order[1] = 2
  /\ attempts[1].kind = "control_input"
  /\ Len(graph.edges) = 1

\* C6 as stated: in scenario C the one edge runs from b to a
C6_Original ==
  (ScenarioC /\ Built) =>
    /\ Len(graph.edges) = 1
    /\ EdgePairs = {<<Nd(<<"b">>, "NoOp"), Nd(<<"a">>, "NoOp")>>}
    /\ graph.edges[1].w = Tags(None, None)

\* ------------------------------------------------------------ C7
\* the calls made so far by one pass for consumer c's input slot n of producer
\* p's output o
PassCalls(kind, p, o, c, n) ==
  {m \in DOMAIN attempts :
     /\ attempts[m].kind = kind
     /\ attempts[m].in_id = c /\ attempts[m].input_index = Some(n)
     /\ attempts[m].out_id = p /\ attempts[m].output_index = Some(o)}

C7_EveryRelationship ==
  Built =>
    \A c \in OpIds : \A n \in DOMAIN src[c].inputs :
      LET p == src[c].inputs[n].op
          o == src[c].inputs[n].idx
          fromInput    == PassCalls("data_input", p, o, c, n - 1)
          fromConsumer == PassCalls("output_consumer", p, o, c, n - 1)
      IN /\ Cardinality(fromInput) = 1
         /\ Cardinality(fromConsumer) = 1
         /\ \A x \in fromInput, y \in fromConsumer :
              /\ attempts[x].in_node = NodeOfOp(c) /\ attempts[y].in_node = NodeOfOp(c)
              /\ attempts[x].out_node = NodeOfOp(p) /\ attempts[y].out_node = NodeOfOp(p)
         /\ NodeOfOp(p) # NodeOfOp(c) =>
              Cardinality(EdgesBetween(NodeOfOp(p), NodeOfOp(c))) = 1

C7_ScenarioD ==
  (ScenarioD /\ Built) =>
    /\ NodeSet = {Nd(<<"a">>, "Const"), Nd(<<"b">>, "Add"), Nd(<<"c">>, "NoOp")}
    /\ Len(graph.edges) = 2
    /\ EdgePairs = {<<Nd(<<"a">>, "Const"), Nd(<<"b">>, "Add")>>,
                    <<Nd(<<"a">>, "Const"), Nd(<<"c">>, "NoOp")>>}

\* C7: the output-consumer pass makes, for every data relationship, the call
\* the data-input pass makes: same producer Node, same consumer Node, same
\* tags; the relationship ends as exactly one producer -> consumer edge when
\* the two Nodes differ.  Scenario D gives 3 nodes and the 2 edges a -> b and
\* a -> c in every iteration order.
C7_BothSides == C7_EveryRelationship /\ C7_ScenarioD

\* scenario D finished with the producer iterated last, so that both edges
\* come from the data-input passes of b and c
C7_Witness ==
  /\ ScenarioD /\ pc = "done"
  /\ order[3] = 1
  /\ Len(attempts) = 4
  /\ attempts[1].kind = "data_input" /\ attempts[3].kind = "output_consumer"
  /\ Len(graph.edges) = 2

\* ------------------------------------------------------------ C8
Loaded == src # NoSource
InvalidText(id) == ~src[id].name.utf8 \/ ~src[id].ty.utf8
\* id is an end of at least one relationship, seen from its own lists or from
\* another operation's
Endpoint(id) ==
  \/ src[id].inputs # << >>
  \/ \E o \in DOMAIN src[id].consumers : src[id].consumers[o] # << >>
  \/ src[id].control_inputs # << >>
  \/ src[id].control_outputs # << >>
  \/ \E x \in OpIds :
       \/ \E n \in DOMAIN src[x].inputs : src[x].inputs[n].op = id
       \/ \E o \in DOMAIN src[x].consumers :
            \E n \in DOMAIN src[x].consumers[o] : src[x].consumers[o][n].op = id
       \/ \E n \in DOMAIN src[x].control_inputs : src[x].control_inputs[n] = id
       \/ \E n \in DOMAIN src[x].control_outputs : src[x].control_outputs[n] = id

NoOutput == pc \notin {"render", "done"} /\ written = NothingWritten

\* C8 as amended: if the name or the type of an operation that is an end of
\* at least one data or control relationship is not valid text, the builder
\* never returns a graph and no rendered text, not even a partial one, is
\* written to the output path or to standard output.
C8_EncodingFailure ==
  (Loaded /\ \E id \in OpIds : InvalidText(id) /\ Endpoint(id)) =>
    (pc \in {"build", "panicked"} /\ written = NothingWritten)

\* the run panicked after part of the graph had been built
C8_Witness ==
  /\ pc = "panicked"
  /\ Len(attempts) >= 2
  /\ Len(graph.edges) >= 1
  /\ written = NothingWritten

\* C8 as stated: an invalid name or type of any operation of the loaded
\* source keeps the run from producing output
C8_Original ==
  (Loaded /\ \E id \in OpIds : InvalidText(id)) => NoOutput

\* ------------------------------------------------------------ C9
\* the (producer or predecessor, consumer or dependent) operation pairs the
\* four lists of the source name, whatever order they are visited in
RelatedPairs ==
  UNION {
    {<<src[x].inputs[n].op, x>> : n \in DOMAIN src[x].inputs}
    \cup UNION {{<<x, src[x].consumers[o][n].op>> : n \in DOMAIN src[x].consumers[o]} :
                  o \in DOMAIN src[x].consumers}
    \cup {<<x, src[x].control_outputs[n]>> : n \in DOMAIN src[x].control_outputs}
    \cup {<<src[x].control_inputs[n], x>> : n \in DOMAIN src[x].control_inputs}
    : x \in OpIds}

\* C9: the finished graph's set of Nodes and set of ordered (source Node,
\* target Node) pairs are functions of the source's relationships and of
\* max_depth alone, so every iteration order gives the same content.
C9_OrderIndependent ==
  Built =>
    /\ NodeSet = {NodeOfOp(pr[1]) : pr \in RelatedPairs}
                 \cup {NodeOfOp(pr[2]) : pr \in RelatedPairs}
    /\ EdgePairs = {<<NodeOfOp(pr[1]), NodeOfOp(pr[2])>> :
                      pr \in {q \in RelatedPairs : NodeOfOp(q[1]) # NodeOfOp(q[2])}}

\* a finished collapsed graph, built with the last operation iterated first,
\* holding edges in both directions between two nodes, one pair having been
\* asked for with different tags
C9_Witness ==
  /\ pc = "done"
  /\ Collapsing
  /\ order[1] = 3
  /\ \E e, f \in DOMAIN graph.edges :
       EdgeFrom(e) = EdgeTo(f) /\ EdgeTo(e) = EdgeFrom(f)
  /\ \E m, n \in DOMAIN attempts :
       /\ attempts[m].in_node = attempts[n].in_node
       /\ attempts[m].out_node = attempts[n].out_node
       /\ attempts[m].in_node # attempts[m].out_node
       /\ attempts[m].input_index # attempts[n].input_index

\* ------------------------------------------------------------ C10
RECURSIVE Flatten(_)
Flatten(ss) == IF ss = << >> THEN << >> ELSE Head(ss) \o Flatten(Tail(ss))

Rel(kind, in_id, in_idx, out_id, out_idx) ==
  [kind |-> kind, in_id |-> in_id, out_id |-> out_id,
   input_index |-> in_idx, output_index |-> out_idx]

\* the relationships of operation x in the order the claim gives: data
\* inputs, output consumers, control outputs, control inputs
RelationshipsOf(x) ==
  [n \in DOMAIN src[x].inputs |->
     Rel("data_input", x, Some(n - 1), src[x].inputs[n].op, Some(src[x].inputs[n].idx))]
  \o Flatten([o \in DOMAIN src[x].consumers |->
       [n \in DOMAIN src[x].consumers[o] |->
          Rel("output_consumer", src[x].consumers[o][n].op,
              Some(src[x].consumers[o][n].idx), x, Some(o - 1))]])
  \o [n \in DOMAIN src[x].control_outputs |->
       Rel("control_output", src[x].control_outputs[n], None, x, None)]
  \o [n \in DOMAIN src[x].control_inputs |->
       Rel("control_input", x, None, src[x].control_inputs[n], None)]

ProcessingOrder == Flatten([n \in DOMAIN order |-> RelationshipsOf(order[n])])

\* the first relationship, in processing order, that resolves to s -> t
FirstFor(s, t) ==
  LET hits == {n \in DOMAIN ProcessingOrder :
                 /\ NodeOfOp(ProcessingOrder[n].out_id) = s
                 /\ NodeOfOp(ProcessingOrder[n].in_id) = t}
  IN ProcessingOrder[CHOOSE n \in hits : \A m \in hits : n <= m]

C10_EdgesKept ==
  /\ \A e \in DOMAIN graph.edges :
       e \in DOMAIN graph'.edges /\ graph'.edges[e] = graph.edges[e]
  /\ (Len(attempts') = Len(attempts) + 1
      /\ EdgesBetween(attempts'[Len(attempts')].out_node,
                      attempts'[Len(attempts')].in_node) # {}) =>
       graph' = graph

C10_FirstTags ==
  Built =>
    /\ Len(attempts) = Len(ProcessingOrder)
    /\ \A e \in DOMAIN graph.edges :
         graph.edges[e].w =
           Tags(FirstFor(EdgeFrom(e), EdgeTo(e)).input_index,
                FirstFor(EdgeFrom(e), EdgeTo(e)).output_index)

\* C10: an edge, once added, is never changed or removed, and a call that
\* finds an edge present for its ordered pair leaves the graph as it is; the
\* finished graph's edges carry the tags of the first relationship, in
\* processing order, that resolved to their ordered pair.
C10_FirstWins == [][C10_EdgesKept]_vars /\ [](C10_FirstTags)

\* two calls for one ordered pair of different nodes, with different tags:
\* the finished graph's edge has the tags of the earlier one
C10_Witness ==
  /\ pc = "done"
  /\ \E m, n \in DOMAIN attempts :
       /\ m < n
       /\ attempts[m].in_node = attempts[n].in_node
       /\ attempts[m].out_node = attempts[n].out_node
       /\ attempts[m].in_node # attempts[m].out_node
       /\ <<attempts[m].in_id, attempts[m].out_id>> # <<attempts[n].in_id, attempts[n].out_id>>
       /\ Tags(attempts[m].input_index, attempts[m].output_index)
            # Tags(attempts[n].input_index, attempts[n].output_index)
       /\ \A q \in 1..(m - 1) :
            <<attempts[q].out_node, attempts[q].in_node>>
              # <<attempts[m].out_node, attempts[m].in_node>>
       /\ TheEdge(attempts[m].out_node, attempts[m].in_node)
            = Tags(attempts[m].input_index, attempts[m].output_index)
\* ------------------------------------------------------------ C11
\* a sequence without its repeated elements, first occurrences kept in order
RECURSIVE Dedup(_)
Dedup(s) ==
  IF s = << >> THEN << >>
  ELSE LET rest == Dedup(SubSeq(s, 1, Len(s) - 1))
       IN IF \E n \in DOMAIN rest : rest[n] = s[Len(s)]
          THEN rest ELSE Append(rest, s[Len(s)])

\* the Nodes in the order they are first resolved by the calls po: each call
\* resolves its input operation, then its output operation
ResolutionOrder(po) ==
  Dedup(Flatten([n \in DOMAIN po |->
          <<NodeOfOp(po[n].in_id), NodeOfOp(po[n].out_id)>>]))

\* the ordered pairs of different Nodes in the order po first asks for them
DiscoveryOrder(po) ==
  Dedup(Flatten([n \in DOMAIN po |->
          LET s == NodeOfOp(po[n].out_id)
              t == NodeOfOp(po[n].in_id)
          IN IF s = t THEN << >> ELSE << <<s, t>> >>]))

PositionIn(s, x) == CHOOSE n \in DOMAIN s : s[n] = x

\* the tags of the first call of po that resolves to s -> t
FirstTags(po, s, t) ==
  LET hits  == {n \in DOMAIN po :
                  NodeOfOp(po[n].out_id) = s /\ NodeOfOp(po[n].in_id) = t}
      first == po[CHOOSE n \in hits : \A m \in hits : n <= m]
  IN Tags(first.input_index, first.output_index)

\* the text a run must emit for the node order ro and the pair order do
ExpectedText(po, ro, do) ==
  [n \in DOMAIN ro |-> [line |-> "node", index |-> n - 1, label |-> ro[n]]]
  \o
  [e \in DOMAIN do |->
     [line |-> "edge",
      from |-> PositionIn(ro, do[e][1]) - 1,
      to |-> PositionIn(ro, do[e][2]) - 1,
      label |-> FirstTags(po, do[e][1], do[e][2])]]

\* C11: rendering is deterministic.  The finished graph lists the nodes in
\* order of first resolution and the edges in order of first discovery, and
\* the text of a successful run is that listing: all of it is fixed by the
\* operation sequence and max_depth, the identity map's key order playing no
\* part.
C11_Deterministic ==
  Built =>
    LET po == ProcessingOrder
        ro == ResolutionOrder(po)
        do == DiscoveryOrder(po)
        text == ExpectedText(po, ro, do)
    IN /\ graph.nodes = ro
       /\ [e \in DOMAIN graph.edges |-> <<EdgeFrom(e), EdgeTo(e)>>] = do
       /\ pc = "done" =>
            /\ text \in {written.file, written.stdout}
            /\ {written.file, written.stdout} \subseteq {text, << >>}

\* a finished run that wrote several nodes and edges, the first node listed
\* belonging to the operation iterated first and not to the first operation
C11_Witness ==
  /\ pc = "done"
  /\ Len(graph.nodes) = 3 /\ Len(graph.edges) >= 2
  /\ order[1] # 1
  /\ graph.nodes[1] = NodeOfOp(order[1])
  /\ graph.nodes[1] # NodeOfOp(1)
  /\ written.file # << >>
\* ------------------------------------------------------------ C12
\* the Nodes the calls so far recorded for operation id
ResolutionsOf(id) ==
  {attempts[n].in_node : n \in {m \in DOMAIN attempts : attempts[m].in_id = id}}
  \cup {attempts[n].out_node : n \in {m \in DOMAIN attempts : attempts[m].out_id = id}}

C12_Reuse ==
  (Len(attempts') = Len(attempts) + 1) =>
    LET a     == attempts'[Len(attempts')]
        fresh == {a.in_node, a.out_node} \ DOMAIN nodes
    IN /\ \A x \in DOMAIN nodes : x \in DOMAIN nodes' /\ nodes'[x] = nodes[x]
       /\ SubSeq(graph'.nodes, 1, Len(graph.nodes)) = graph.nodes
       /\ Len(graph'.nodes) = Len(graph.nodes) + Cardinality(fresh)
       /\ graph'.nodes[nodes'[a.in_node]] = a.in_node
       /\ graph'.nodes[nodes'[a.out_node]] = a.out_node

C12_OneNodePerOperation ==
  \A id \in OpIds :
    /\ Cardinality(ResolutionsOf(id)) <= 1
    /\ \A x \in ResolutionsOf(id) :
         Cardinality({n \in DOMAIN graph.nodes : graph.nodes[n] = x}) = 1

\* C12: resolution is idempotent.  Every resolution of one operation during
\* a build gives the same Node; a call whose Node is already in the identity
\* map reuses the recorded index and adds no node, so each call adds exactly
\* as many nodes as it resolves identities not seen before.
C12_Idempotent == [][C12_Reuse]_vars /\ [](C12_OneNodePerOperation)

\* a finished run without collapsing in which one operation was resolved
\* three times or more and still holds one node
C12_Witness ==
  /\ pc = "done"
  /\ ~Collapsing
  /\ Len(graph.nodes) = 3
  /\ \E id \in OpIds :
       Cardinality({n \in DOMAIN attempts : id \in {attempts[n].in_id, attempts[n].out_id}}) >= 3
\* ------------------------------------------------------------ C13
\* grp/x (Const) feeds input 0 of grp/y (Add) from its output 0; max_depth = 1
ScenarioB == src = Source(SchemeGroup, {Data(1, 0, 2)}) /\ max_depth = Some(1)

C13_EndpointsInserted ==
  (Len(attempts') = Len(attempts) + 1) =>
    LET a == attempts'[Len(attempts')]
    IN /\ a.in_node \in DOMAIN nodes' /\ a.out_node \in DOMAIN nodes'
       /\ \E n \in DOMAIN graph'.nodes : graph'.nodes[n] = a.in_node
       /\ \E n \in DOMAIN graph'.nodes : graph'.nodes[n] = a.out_node

C13_ScenarioB ==
  (ScenarioB /\ Built) =>
    /\ graph.nodes = <<Nd(<<"grp">>, "Block")>>
    /\ graph.edges = << >>

\* C13: after every call both resolved endpoint Nodes are in the graph,
\* whether the edge was added, skipped as a self-loop or skipped as a
\* duplicate; scenario B gives the 1 node (grp, Block) and 0 edges.
C13_NodesWithoutEdge == [][C13_EndpointsInserted]_vars /\ [](C13_ScenarioB)

\* scenario B finished: two calls, both self pairs, one node, no edge
C13_Witness ==
  /\ ScenarioB /\ pc = "done"
  /\ Len(attempts) = 2
  /\ \A n \in DOMAIN attempts : attempts[n].in_node = attempts[n].out_node
  /\ Len(graph.nodes) = 1 /\ Len(graph.edges) = 0
\* ------------------------------------------------------------ C14
\* the kind of the call that created edge e: the first call made for its pair
CreatedBy(e) ==
  LET hits == {n \in DOMAIN attempts :
                 attempts[n].out_node = EdgeFrom(e) /\ attempts[n].in_node = EdgeTo(e)}
  IN attempts[CHOOSE n \in hits : \A m \in hits : n <= m].kind

\* C14: edge labels are well formed.  In every state every edge has
\* input_index and output_index both present, when a data-input or
\* output-consumer call created it, or both absent, when a control call
\* created it, and its dim is empty.
C14_WellFormedLabels ==
  \A e \in DOMAIN graph.edges :
    LET w == graph.edges[e].w
    IN /\ w.dim = << >>
       /\ w.input_index.some = w.output_index.some
       /\ w.input_index.some <=> CreatedBy(e) \in {"data_input", "output_consumer"}
       /\ ~w.input_index.some <=> CreatedBy(e) \in {"control_input", "control_output"}

\* a finished graph holding a data edge and a control edge, one created by
\* each of the four kinds of call being possible; here a consumer-side data
\* edge next to a control-input edge
C14_Witness ==
  /\ pc = "done"
  /\ \E e, f \in DOMAIN graph.edges :
       /\ CreatedBy(e) = "output_consumer" /\ graph.edges[e].w.output_index.some
       /\ CreatedBy(f) = "control_input" /\ ~graph.edges[f].w.input_index.some
\* ------------------------------------------------------------ C15
\* the ordered pairs of different Nodes the calls so far asked for
AttemptedPairs ==
  {<<attempts[n].out_node, attempts[n].in_node>> :
     n \in {m \in DOMAIN attempts : attempts[m].out_node # attempts[m].in_node}}

\* C15: the edge set is exactly the attempted pairs minus self pairs.  In
\* every state, and so after the pass, an edge s -> t exists if and only if
\* some call resolved its source to s and its target to t with s # t.
C15_ExactEdgeSet ==
  /\ EdgePairs = AttemptedPairs
  /\ Len(graph.edges) = Cardinality(AttemptedPairs)

\* a finished graph with edges in both directions between two nodes, the
\* pair asked for later not being blocked by the opposite edge, and with a
\* self pair that left no edge
C15_Witness ==
  /\ pc = "done"
  /\ \E e, f \in DOMAIN graph.edges :
       e < f /\ EdgeFrom(e) = EdgeTo(f) /\ EdgeTo(e) = EdgeFrom(f)
  /\ \E n \in DOMAIN attempts : attempts[n].in_node = attempts[n].out_node
\* ------------------------------------------------------------ C16
\* the operations the calls so far resolved
ResolvedOps ==
  {attempts[n].in_id : n \in DOMAIN attempts}
  \cup {attempts[n].out_id : n \in DOMAIN attempts}

\* C16: only relationship endpoints become nodes.  The finished node set is
\* the set of resolved Nodes of the operations that are an end of at least
\* one relationship; an operation with none is never resolved; a source of
\* such operations only gives an empty graph.
C16_OnlyEndpoints ==
  Built =>
    /\ NodeSet = {NodeOfOp(id) : id \in {x \in OpIds : Endpoint(x)}}
    /\ ResolvedOps = {x \in OpIds : Endpoint(x)}
    /\ (\A x \in OpIds : ~Endpoint(x)) => (graph = EmptyGraph /\ Dot(graph) = << >>)

\* a finished graph of two nodes or more to which one operation, having no
\* relationship, contributed nothing
C16_Witness ==
  /\ pc = "done"
  /\ Len(graph.nodes) >= 2
  /\ \E x \in OpIds :
       ~Endpoint(x) /\ x \notin ResolvedOps /\ NodeOfOp(x) \notin NodeSet
\* ------------------------------------------------------------ C17
\* operations p, c with a data relationship p -> c and a control relationship
\* in which c must run after p: both resolve to the pair NodeOfOp(p) -> NodeOfOp(c)
SharedPairs ==
  {pr \in OpIds \X OpIds :
     /\ \E n \in DOMAIN src[pr[2]].inputs : src[pr[2]].inputs[n].op = pr[1]
     /\ \E n \in DOMAIN src[pr[2]].control_inputs : src[pr[2]].control_inputs[n] = pr[1]}

NamesUnique == \A x, y \in OpIds : x # y => src[x].name # src[y].name
NodesUnique == \A x, y \in OpIds : x # y => NodeOfOp(x) # NodeOfOp(y)

DataWins ==
  \A pr \in SharedPairs :
    NodeOfOp(pr[1]) # NodeOfOp(pr[2]) =>
      /\ Cardinality(EdgesBetween(NodeOfOp(pr[1]), NodeOfOp(pr[2]))) = 1
      /\ TheEdge(NodeOfOp(pr[1]), NodeOfOp(pr[2])).input_index.some
      /\ TheEdge(NodeOfOp(pr[1]), NodeOfOp(pr[2])).output_index.some

\* C17 as amended: without collapsing and with no two operations resolving
\* to the same Node, when two operations have both a data and a control
\* relationship for one ordered node pair, the one edge kept for the pair
\* carries the data tags in every iteration order.
C17_DataBeatsControl == (Built /\ ~Collapsing /\ NodesUnique) => DataWins

\* the dependent operation was iterated first, its data-input call created
\* the edge and its control-input call, made later, found it present
C17_Witness ==
  /\ pc = "done" /\ ~Collapsing /\ NodesUnique
  /\ \E pr \in SharedPairs :
       /\ order[1] = pr[2]
       /\ attempts[1].kind = "data_input" /\ attempts[1].out_id = pr[1]
       /\ \E n \in DOMAIN attempts :
            attempts[n].kind = "control_input" /\ attempts[n].out_id = pr[1]
              /\ attempts[n].in_id = pr[2]
       /\ TheEdge(NodeOfOp(pr[1]), NodeOfOp(pr[2])).input_index.some

\* C17 as stated: the same with operation names unique
C17_Original == (Built /\ ~Collapsing /\ NamesUnique) => DataWins

\* with collapsing a control relationship of an earlier operation can win
C17_ControlWinsWhenCollapsed ==
  /\ pc = "done" /\ Collapsing
  /\ \E pr \in SharedPairs :
       /\ NodeOfOp(pr[1]) # NodeOfOp(pr[2])
       /\ ~TheEdge(NodeOfOp(pr[1]), NodeOfOp(pr[2])).input_index.some
====
